---- MODULE Spec2Model ----
(***************************************************************************)
(* A model of sdeDataExtractor.py: the market tree assembly                *)
(* (extract_market, as a function and call by call), the                   *)
(* station/directory correlation (extract_locations), the ore name         *)
(* grouping (group_ore_subtypes), the categorisation of mined types        *)
(* (extract_ores_ice_and_moon_ores) and the threaded loader                *)
(* (load_yaml_parallel).                                                   *)
(*                                                                         *)
(* Python strings are sequences of one-character strings, compared by      *)
(* code point as Python compares str.  Python dicts whose iteration order  *)
(* reaches the output are sequences of [k, v] entries in insertion order;  *)
(* dicts that are only looked up are functions.                            *)
(***************************************************************************)
EXTENDS Integers, Sequences, FiniteSets, TLC

VARIABLES
  \* extract_market
  types,            \* types.yaml: sequence of [typeID, name, mgid, published]
  market_groups,    \* marketGroups.yaml: sequence of [id, name, parent, hasTypes]
  types_by_mgid,    \* defaultdict(list): mgid -> list of item records
  children_map,     \* defaultdict(list): parent id (or None) -> list of mgid
  market_tree,      \* the dict written to market.json
  mpc,              \* position in extract_market
  \* extract_locations
  raw_stations,     \* staStations.yaml: sequence of station records
  universe,         \* the directory tree under UNIVERSE_ROOT, in os.walk order
  stations,         \* extract_stations(): stationID string -> station record
  region_structure, \* first-pass index regionID -> constellationID -> systemID -> stations
  walk_i,           \* number of region directories os.walk has yielded so far
  locations,        \* the dict written to locations.json
  failed,           \* TRUE once a dict lookup raised KeyError
  lpc,              \* position in extract_locations
  \* group_ore_subtypes
  items,            \* the input list of entries
  item_type,        \* "ore", "ice", "moon_ore" or anything else
  base_variants,    \* first pass: base name -> [base, variants]
  subtypes,         \* the returned dict
  regrouped,        \* group_ore_subtypes run again on the flattened result
  opc,              \* position in group_ore_subtypes
  \* extract_market, build_node call by call
  call_stack,       \* the frames of build_node under the loop of step 5
  calls,            \* how many times build_node was entered, per group
  \* extract_ores_ice_and_moon_ores
  ore_types,        \* types.yaml: sequence of [typeID, name, groupID, published]
  all_refined_type_ids, \* the materialTypeIDs of typeMaterials.yaml
  ore_groups,       \* group IDs of the asteroid category
  ice_groups,       \* group IDs of the ice category named "...ice..."
  gas_groups,       \* group IDs of the gas category
  type_i,           \* number of types the loop of line 516 has taken
  ores,             \* the five category lists
  ice_items,
  moon_ores,
  minerals,
  gas_clouds,
  cpc,              \* position in extract_ores_ice_and_moon_ores
  \* load_yaml_parallel
  paths,            \* the argument: a sequence of paths
  files,            \* the file system: what load_yaml finds at each path
  work_queue,       \* tasks submitted to the executor and not yet taken
  worker,           \* per worker thread: [pc, path, data]
  lock,             \* threading.Lock: {} when free, {w} when w holds it
  results,          \* the shared dict: set of [path, data] entries
  ypc               \* position of the calling thread

mvars == <<types, market_groups, types_by_mgid, children_map, market_tree, mpc>>
lvars == <<raw_stations, universe, stations, region_structure, walk_i, locations,
           failed, lpc>>
ovars == <<items, item_type, base_variants, subtypes, regrouped, opc>>
wvars == <<call_stack, calls>>
cvars == <<ore_types, all_refined_type_ids, ore_groups, ice_groups, gas_groups,
           type_i, ores, ice_items, moon_ores, minerals, gas_clouds, cpc>>
yvars == <<paths, files, work_queue, worker, lock, results, ypc>>
xvars == <<wvars, cvars, yvars>>
vars == <<mvars, lvars, ovars, xvars>>

\* None, where an ID is expected: a value that is no ID.
None == 0 - 1

-----------------------------------------------------------------------------
(* Strings                                                                 *)

UpperCase ==
  << "A", "B", "C", "D", "E", "F", "G", "H", "I", "J", "K", "L", "M",
     "N", "O", "P", "Q", "R", "S", "T", "U", "V", "W", "X", "Y", "Z" >>

LowerCase ==
  << "a", "b", "c", "d", "e", "f", "g", "h", "i", "j", "k", "l", "m",
     "n", "o", "p", "q", "r", "s", "t", "u", "v", "w", "x", "y", "z" >>

Digit == << "0", "1", "2", "3", "4", "5", "6", "7", "8", "9" >>

Range(s) == {s[i] : i \in 1..Len(s)}

CharSet == Range(UpperCase) \cup Range(LowerCase) \cup Range(Digit) \cup {" ", "_"}

IndexIn(s, c) == CHOOSE i \in 1..Len(s) : s[i] = c

\* The code point of a character.
OrdTable ==
  [c \in CharSet |->
     IF c = " " THEN 32
     ELSE IF c = "_" THEN 95
     ELSE IF c \in Range(Digit) THEN 47 + IndexIn(Digit, c)
     ELSE IF c \in Range(UpperCase) THEN 64 + IndexIn(UpperCase, c)
     ELSE 96 + IndexIn(LowerCase, c)]

Ord(c) == OrdTable[c]

\* str.lower() on one character.
LowerTable ==
  [c \in CharSet |-> IF c \in Range(UpperCase) THEN LowerCase[IndexIn(UpperCase, c)] ELSE c]

LowerChar(c) == LowerTable[c]

\* str.lower()
StrLower(s) == [i \in 1..Len(s) |-> LowerChar(s[i])]

\* a < b on str: lexicographic by code point.
StrLess(a, b) ==
  \E i \in 1..(Len(a) + 1) :
    /\ \A j \in 1..(i - 1) : j <= Len(b) /\ a[j] = b[j]
    /\ \/ i = Len(a) + 1 /\ Len(b) >= i
       \/ i <= Len(a) /\ i <= Len(b) /\ Ord(a[i]) < Ord(b[i])

\* str.startswith
StartsWith(s, p) == Len(p) <= Len(s) /\ SubSeq(s, 1, Len(p)) = p

\* str.strip(): leading and trailing whitespace removed.
RECURSIVE LStrip(_)
LStrip(s) == IF s # <<>> /\ s[1] = " " THEN LStrip(Tail(s)) ELSE s

RECURSIVE RStrip(_)
RStrip(s) ==
  IF s # <<>> /\ s[Len(s)] = " " THEN RStrip(SubSeq(s, 1, Len(s) - 1)) ELSE s

Strip(s) == RStrip(LStrip(s))

\* str(n) for a small natural number.
RECURSIVE IntToStr(_)
IntToStr(n) ==
  IF n < 10 THEN <<Digit[n + 1]>> ELSE IntToStr(n \div 10) \o <<Digit[(n % 10) + 1]>>

-----------------------------------------------------------------------------
(* sorted() and dict                                                       *)

\* One step of a stable sort of entries [k, v] by k: x goes after every entry
\* whose key is not greater.
SortInsert(t, x) ==
  LET pos == Cardinality({i \in 1..Len(t) : ~StrLess(x.k, t[i].k)})
  IN SubSeq(t, 1, pos) \o <<x>> \o SubSeq(t, pos + 1, Len(t))

\* sorted(s, key=lambda e: e.k): stable, ascending by code point.  The
\* prefix p is sorted once, as t, and then extended by the last entry.
RECURSIVE Sorted(_)
Sorted(s) ==
  IF s = <<>> THEN <<>>
  ELSE CHOOSE r \in {SortInsert(t, s[Len(s)]) :
                       t \in {Sorted(p) : p \in {SubSeq(s, 1, Len(s) - 1)}}} : TRUE

\* d[k] = v on an insertion-ordered dict: an existing key keeps its place.
DictPut(d, k, v) ==
  IF \E i \in 1..Len(d) : d[i].k = k
  THEN [i \in 1..Len(d) |-> IF d[i].k = k THEN [k |-> k, v |-> v] ELSE d[i]]
  ELSE Append(d, [k |-> k, v |-> v])

DictKeys(d) == {d[i].k : i \in 1..Len(d)}

DictGet(d, k) == (CHOOSE e \in Range(d) : e.k = k).v

-----------------------------------------------------------------------------
(* extract_market                                                          *)
(* A type is [typeID, name, mgid, published]; a market group is            *)
(* [id, nameID, parent, hasTypes], nameID being {} when the record has no  *)
(* name and {name} otherwise.  The icon, volume and mass fields are copied *)
(* through unchanged and are left out.                                     *)

MaxGroups == 2
MaxTypes == 2

NameB == <<"B">>
NameA == <<"a">>
MarketNames == {NameB, NameA}

\* type_data.get("published", False), "typeID": str(type_id)
ItemRecord(t) ==
  [typeID |-> IntToStr(t.typeID), typeName |-> t.name, published |-> t.published]

GroupIds(gs) == {gs[i].id : i \in 1..Len(gs)}

\* market_groups[mgid]
Group(gs, mgid) == CHOOSE g \in Range(gs) : g.id = mgid

\* mgdata.get("nameID", {}).get("en", f"Unknown_{mgid}")
GroupName(g) ==
  IF g.nameID = {}
  THEN <<"U", "n", "k", "n", "o", "w", "n", "_">> \o IntToStr(g.id)
  ELSE CHOOSE n \in g.nameID : TRUE

\* Step 2: every type whose marketGroupID is a key of market_groups is
\* appended to the list of that group, in the iteration order of types.
TypesByMgid(ts, gs) ==
  LET keys == {ts[i].mgid : i \in 1..Len(ts)} \cap GroupIds(gs)
  IN [m \in keys |->
        LET sel == SelectSeq(ts, LAMBDA t : t.mgid = m)
        IN [i \in 1..Len(sel) |-> ItemRecord(sel[i])]]

\* Step 3: every group is appended to the list of its parentGroupID.
ChildrenMap(gs) ==
  [p \in {gs[i].parent : i \in 1..Len(gs)} |->
     LET sel == SelectSeq(gs, LAMBDA g : g.parent = p)
     IN [i \in 1..Len(sel) |-> sel[i].id]]

\* d.get(k, []) and defaultdict(list)[k]
GetList(d, k) == IF k \in DOMAIN d THEN d[k] ELSE <<>>

\* sorted(items, key=lambda x: x["typeName"])
SortedItems(its) ==
  LET s == Sorted([i \in 1..Len(its) |-> [k |-> its[i].typeName, v |-> its[i]]])
  IN [i \in 1..Len(s) |-> s[i].v]

\* sorted(ids, key=lambda cid: <the resolved name of group cid>)
SortedByName(ids, gs) ==
  CHOOSE r \in {[i \in 1..Len(s) |-> s[i].v] :
                  s \in {Sorted(e) :
                           e \in {[i \in 1..Len(ids) |->
                                     [k |-> GroupName(Group(gs, ids[i])), v |-> ids[i]]]}}} :
    TRUE

RECURSIVE build_node(_, _, _, _)
RECURSIVE UpdateAll(_, _, _, _)

\* for id in ids: d.update(build_node(id)), from an empty dict.
UpdateAll(ids, gs, tbm, cm) ==
  IF ids = <<>> THEN <<>>
  ELSE LET n == build_node(ids[Len(ids)], gs, tbm, cm)
       IN DictPut(UpdateAll(SubSeq(ids, 1, Len(ids) - 1), gs, tbm, cm), n.k, n.v)

\* Step 4.  The result {group_name: node} is the entry [k, v].  A node is
\* [info, hasItems, items, children]: hasItems says that the key "items" is
\* present, children are the other keys in their order; "_info" is last
\* after children and first before "items".
build_node(mgid, gs, tbm, cm) ==
  LET mgdata == Group(gs, mgid)
      info == [marketGroupID |-> IntToStr(mgid),
               hasTypes |-> IF mgdata.hasTypes THEN "True" ELSE "False"]
  IN IF mgdata.hasTypes
     THEN [k |-> GroupName(mgdata),
           v |-> [info |-> info, hasItems |-> TRUE,
                  items |-> SortedItems(GetList(tbm, mgid)),
                  children |-> <<>>]]
     ELSE LET child_nodes ==
                UpdateAll(SortedByName(GetList(cm, mgid), gs), gs, tbm, cm)
          IN [k |-> GroupName(mgdata),
              v |-> [info |-> info, hasItems |-> FALSE, items |-> <<>>,
                     children |-> Sorted(child_nodes)]]

\* Step 5
BuildMarketTree(gs, tbm, cm) ==
  UpdateAll(SortedByName(GetList(cm, None), gs), gs, tbm, cm)

\* extract_market as a function of the two tables.
ExtractMarket(ts, gs) == BuildMarketTree(gs, TypesByMgid(ts, gs), ChildrenMap(gs))

GroupAttrs ==
  [nameID : {{}} \cup {{n} : n \in MarketNames},
   parent : {None} \cup (1..MaxGroups),
   hasTypes : BOOLEAN]

TypeAttrs ==
  [name : MarketNames, mgid : {None} \cup (1..MaxGroups), published : BOOLEAN]

\* The table of marketGroups.yaml with the attributes f of its groups 1..n.
GroupTable(n, f) ==
  [i \in 1..n |-> [id |-> i, nameID |-> f[i].nameID, parent |-> f[i].parent,
                   hasTypes |-> f[i].hasTypes]]

\* The table of types.yaml with the attributes f of its types 1..n.
TypeTable(n, f) ==
  [i \in 1..n |-> [typeID |-> i, name |-> f[i].name, mgid |-> f[i].mgid,
                   published |-> f[i].published]]

MarketIdle ==
  /\ types = <<>>
  /\ market_groups = <<>>
  /\ types_by_mgid = <<>>
  /\ children_map = <<>>
  /\ market_tree = <<>>
  /\ mpc = "idle"

MarketInit ==
  /\ \E n \in 0..MaxTypes : \E f \in [1..n -> TypeAttrs] : types = TypeTable(n, f)
  /\ \E n \in 0..MaxGroups : \E f \in [1..n -> GroupAttrs] :
       market_groups = GroupTable(n, f)
  /\ types_by_mgid = <<>>
  /\ children_map = <<>>
  /\ market_tree = <<>>
  /\ mpc = "start"

CollectTypes ==
  /\ mpc = "start"
  /\ types_by_mgid' = TypesByMgid(types, market_groups)
  /\ mpc' = "types"
  /\ UNCHANGED <<types, market_groups, children_map, market_tree, lvars, ovars, xvars>>

BuildChildrenMap ==
  /\ mpc = "types"
  /\ children_map' = ChildrenMap(market_groups)
  /\ mpc' = "children"
  /\ UNCHANGED <<types, market_groups, types_by_mgid, market_tree, lvars, ovars, xvars>>

BuildTree ==
  /\ mpc = "children"
  /\ market_tree' = BuildMarketTree(market_groups, types_by_mgid, children_map)
  /\ mpc' = "done"
  /\ UNCHANGED <<types, market_groups, types_by_mgid, children_map, lvars, ovars, xvars>>

MarketNext == CollectTypes \/ BuildChildrenMap \/ BuildTree

-----------------------------------------------------------------------------
(* extract_stations and extract_locations                                  *)
(* A raw station is [stationID, regionID, constellationID, solarSystemID], *)
(* each ID being None when the record lacks the key.  A directory is       *)
(* [name, decl, ...]: decl is {} when the directory holds no declaration   *)
(* file (region.yaml, constellation.yaml, solarsystem.yaml) and {id} when  *)
(* the file declares id.  Sibling directories have distinct names, and so  *)
(* have the region directories of the walk.  The fields                    *)
(* solarSystemNameID and security are copied through and are left out.     *)

PLEX_REGION_ID == 19000001

MaxStations == 2

RegionA == 10
RegionB == 11
ConstA == 20
ConstB == 21
SysA == 30
SysB == 31

StationPool ==
  { [stationID |-> 1, regionID |-> RegionA, constellationID |-> ConstA, solarSystemID |-> SysA],
    [stationID |-> 2, regionID |-> RegionA, constellationID |-> ConstB, solarSystemID |-> SysB],
    [stationID |-> 3, regionID |-> None, constellationID |-> ConstA, solarSystemID |-> SysA],
    [stationID |-> 4, regionID |-> RegionB, constellationID |-> ConstA, solarSystemID |-> SysA],
    [stationID |-> 1, regionID |-> RegionA, constellationID |-> None, solarSystemID |-> SysA],
    [stationID |-> None, regionID |-> RegionA, constellationID |-> ConstA, solarSystemID |-> SysA],
    [stationID |-> 5, regionID |-> PLEX_REGION_ID, constellationID |-> ConstA, solarSystemID |-> SysA],
    [stationID |-> 6, regionID |-> RegionA, constellationID |-> ConstA, solarSystemID |-> None],
    [stationID |-> 7, regionID |-> RegionA, constellationID |-> ConstA, solarSystemID |-> SysB] }

\* The station lists: up to MaxStations records of the pool, none twice.
StationLists ==
  UNION {{f \in [1..n -> StationPool] : \A i, j \in 1..n : f[i] = f[j] => i = j}
         : n \in 0..MaxStations}

\* The system directories a constellation directory can hold.
SystemLayouts ==
  {a \o b : a \in {<<>>, <<[name |-> "Sa", decl |-> {}]>>, <<[name |-> "Sa", decl |-> {SysA}]>>},
            b \in {<<>>, <<[name |-> "Sb", decl |-> {SysB}]>>}}

\* The constellation directories a region directory can hold.
ConstLayouts ==
  {<<>>, <<[name |-> "Ca", decl |-> {}, systems |-> <<>>]>>}
    \cup {<<[name |-> "Ca", decl |-> {ConstA}, systems |-> sl]>> : sl \in SystemLayouts}

RegionDirs(name) ==
  {[name |-> name, decl |-> {}, consts |-> <<>>]}
    \cup {[name |-> name, decl |-> {r}, consts |-> cl] :
            r \in {PLEX_REGION_ID, RegionA}, cl \in ConstLayouts}

Universes ==
  {<<>>} \cup {<<a>> : a \in RegionDirs("Ra")}
         \cup {<<a, b>> : a \in RegionDirs("Ra"), b \in RegionDirs("Rb")}

EmptyDict == <<>>

\* sid = str(s.get("stationID", ""))
StationKey(s) == IF s.stationID = None THEN <<>> ELSE IntToStr(s.stationID)

\* extract_stations: stations[sid] = s for every record with a non-empty
\* sid, a later record replacing an earlier one of the same sid.
ExtractStations(raw) ==
  LET keep == {i \in 1..Len(raw) : StationKey(raw[i]) # <<>>}
  IN [k \in {StationKey(raw[i]) : i \in keep} |->
        LET last == CHOOSE i \in keep :
                      /\ StationKey(raw[i]) = k
                      /\ \A j \in keep : StationKey(raw[j]) = k => j <= i
        IN raw[last]]

\* bool(x) of an ID or None
Truthy(x) == x # None /\ x # 0

\* all([region_id, constellation_id, system_id])
AllIds(s) == Truthy(s.regionID) /\ Truthy(s.constellationID) /\ Truthy(s.solarSystemID)

\* First pass: region_structure[r][c][s] is the dict of the stations of
\* that triple; a station lacking one of the three IDs is skipped.
FirstPass(sts) ==
  LET valid == {k \in DOMAIN sts : AllIds(sts[k])}
  IN [r \in {sts[k].regionID : k \in valid} |->
       LET inR == {k \in valid : sts[k].regionID = r}
       IN [c \in {sts[k].constellationID : k \in inR} |->
            LET inC == {k \in inR : sts[k].constellationID = c}
            IN [y \in {sts[k].solarSystemID : k \in inC} |->
                 [k \in {k \in inC : sts[k].solarSystemID = y} |-> sts[k]]]]]

\* The ID a declaration file declares.
Declared(d) == CHOOSE x \in d.decl : TRUE

\* has_stations of a constellation (lines 199-200)
HasStations(rs, region_id, constellation_id) ==
  region_id \in DOMAIN rs /\ constellation_id \in DOMAIN rs[region_id]

\* The subscripts of lines 225 and 240 find their keys.
KeysPresent(rs, region_id, constellation_id) ==
  region_id \in DOMAIN rs /\ constellation_id \in DOMAIN rs[region_id]

\* Line 225 raises KeyError: the subscript is evaluated only when
\* has_stations is true.
LookupRaises(rs, region_id, constellation_id, has_stations) ==
  has_stations /\ ~KeysPresent(rs, region_id, constellation_id)

\* has_system_stations (lines 224-225), when the lookup does not raise
HasSystemStations(rs, region_id, constellation_id, has_stations, system_id) ==
  /\ has_stations
  /\ KeysPresent(rs, region_id, constellation_id)
  /\ system_id \in DOMAIN rs[region_id][constellation_id]

\* SystemIncluded without the test of line 228.
SystemIncludedAll(sd, has_system_stations, is_plex_region) == sd.decl # {}

\* Lines 216 and 228: the system directory is not skipped.
SystemIncluded(sd, has_system_stations, is_plex_region) ==
  sd.decl # {} /\ (has_system_stations \/ is_plex_region)

\* SystemObj attaching the stations of the whole constellation.
SystemObjOfConstellation(rs, region_id, constellation_id, has_stations, sd) ==
  LET system_id == Declared(sd)
  IN [solarSystemID |-> system_id,
      stations |->
        IF HasSystemStations(rs, region_id, constellation_id, has_stations, system_id)
        THEN LET all == rs[region_id][constellation_id]
             IN [k \in UNION {DOMAIN all[y] : y \in DOMAIN all} |->
                   all[CHOOSE y \in DOMAIN all : k \in DOMAIN all[y]][k]]
        ELSE EmptyDict]

\* Lines 231-243
SystemObj(rs, region_id, constellation_id, has_stations, sd) ==
  LET system_id == Declared(sd)
  IN [solarSystemID |-> system_id,
      stations |->
        IF HasSystemStations(rs, region_id, constellation_id, has_stations, system_id)
        THEN rs[region_id][constellation_id][system_id]
        ELSE EmptyDict]

\* Lines 206-246: the system entries of a constellation, by directory name.
ConstellationObj(rs, region_id, is_plex_region, cd) ==
  LET constellation_id == Declared(cd)
      has_stations == HasStations(rs, region_id, constellation_id)
      kept == {i \in 1..Len(cd.systems) :
                 SystemIncluded(
                   cd.systems[i],
                   cd.systems[i].decl # {} /\
                     HasSystemStations(rs, region_id, constellation_id, has_stations,
                                       Declared(cd.systems[i])),
                   is_plex_region)}
  IN [constellationID |-> constellation_id,
      systems |->
        [n \in {cd.systems[i].name : i \in kept} |->
           SystemObj(rs, region_id, constellation_id, has_stations,
                     CHOOSE sd \in Range(cd.systems) : sd.name = n)]]

\* ConstIncluded without the PLEX exception of line 203.
ConstIncludedIndexOnly(rs, region_id, is_plex_region, cd) ==
  cd.decl # {} /\ HasStations(rs, region_id, Declared(cd))

\* Lines 191 and 203: the constellation directory is not skipped.
ConstIncluded(rs, region_id, is_plex_region, cd) ==
  cd.decl # {} /\ (HasStations(rs, region_id, Declared(cd)) \/ is_plex_region)

\* Line 250: len(constellation_obj) > 1
ConstKept(constellation_obj) == DOMAIN constellation_obj.systems # {}

\* Lines 179-251: the constellation entries of a region, by directory name.
RegionObj(rs, region_id, is_plex_region, rd) ==
  LET kept == {i \in 1..Len(rd.consts) :
                 /\ ConstIncluded(rs, region_id, is_plex_region, rd.consts[i])
                 /\ ConstKept(ConstellationObj(rs, region_id, is_plex_region, rd.consts[i]))}
  IN [regionID |-> region_id,
      consts |->
        [n \in {rd.consts[i].name : i \in kept} |->
           ConstellationObj(rs, region_id, is_plex_region,
                            CHOOSE cd \in Range(rd.consts) : cd.name = n)]]

\* Some system of the region directory makes line 225 raise.
RegionRaises(rs, region_id, is_plex_region, rd) ==
  \E i \in 1..Len(rd.consts) :
    /\ ConstIncluded(rs, region_id, is_plex_region, rd.consts[i])
    /\ \E j \in 1..Len(rd.consts[i].systems) :
         /\ rd.consts[i].systems[j].decl # {}
         /\ LookupRaises(rs, region_id, Declared(rd.consts[i]),
                         HasStations(rs, region_id, Declared(rd.consts[i])))

\* Lines 156 and 167: the region directory is processed.
RegionProcessed(rs, rd) ==
  rd.decl # {} /\ (Declared(rd) \in DOMAIN rs \/ Declared(rd) = PLEX_REGION_ID)

\* RegionKept without the PLEX exception of line 254.
RegionKeptContentOnly(region_obj, is_plex_region) == DOMAIN region_obj.consts # {}

\* Line 254: len(region_obj) > 1 or is_plex_region
RegionKept(region_obj, is_plex_region) ==
  DOMAIN region_obj.consts # {} \/ is_plex_region

LocIdle ==
  /\ raw_stations = <<>>
  /\ universe = <<>>
  /\ stations = <<>>
  /\ region_structure = <<>>
  /\ walk_i = 0
  /\ locations = <<>>
  /\ failed = FALSE
  /\ lpc = "idle"

LocInit ==
  /\ raw_stations \in StationLists
  /\ universe \in Universes
  /\ stations = EmptyDict
  /\ region_structure = EmptyDict
  /\ walk_i = 0
  /\ locations = EmptyDict
  /\ failed = FALSE
  /\ lpc = "start"

\* stations = extract_stations()
LoadStations ==
  /\ lpc = "start"
  /\ stations' = ExtractStations(raw_stations)
  /\ lpc' = "index"
  /\ UNCHANGED <<raw_stations, universe, region_structure, walk_i, locations, failed,
                 mvars, ovars, xvars>>

\* The first pass over stations.items()
IndexStations ==
  /\ lpc = "index"
  /\ region_structure' = FirstPass(stations)
  /\ lpc' = "walk"
  /\ UNCHANGED <<raw_stations, universe, stations, walk_i, locations, failed,
                 mvars, ovars, xvars>>

\* One region directory of the os.walk loop, with the loops over its
\* constellation and system directories.
WalkRegion ==
  /\ lpc = "walk"
  /\ walk_i < Len(universe)
  /\ LET rd == universe[walk_i + 1]
         is_plex_region == rd.decl # {} /\ Declared(rd) = PLEX_REGION_ID
     IN IF ~RegionProcessed(region_structure, rd)
        THEN UNCHANGED <<locations, failed, lpc>>
        ELSE IF RegionRaises(region_structure, Declared(rd), is_plex_region, rd)
        THEN /\ failed' = TRUE
             /\ lpc' = "crashed"
             /\ UNCHANGED locations
        ELSE LET region_obj ==
                   RegionObj(region_structure, Declared(rd), is_plex_region, rd)
             IN /\ locations' =
                     IF RegionKept(region_obj, is_plex_region)
                     THEN (rd.name :> region_obj) @@ locations
                     ELSE locations
                /\ UNCHANGED <<failed, lpc>>
  /\ walk_i' = walk_i + 1
  /\ UNCHANGED <<raw_stations, universe, stations, region_structure, mvars, ovars, xvars>>

\* write_json("locations.json", locations)
WriteLocations ==
  /\ lpc = "walk"
  /\ walk_i = Len(universe)
  /\ lpc' = "done"
  /\ UNCHANGED <<raw_stations, universe, stations, region_structure, walk_i, locations,
                 failed, mvars, ovars, xvars>>

LocNext == LoadStations \/ IndexStations \/ WalkRegion \/ WriteLocations

-----------------------------------------------------------------------------
(* group_ore_subtypes                                                      *)
(* An entry is [typeID, name, volume, group, refined_output]; group is     *)
(* {g}, or {} for an entry without the key "group".  base_variants and the *)
(* result are insertion-ordered dicts; a node of the result is the base    *)
(* entry's five fields and, in variants, the nested keys after them.       *)

MaxOreItems == 4

OrePrefixes ==
  << <<"c", "o", "n", "c", "e", "n", "t", "r", "a", "t", "e", "d", " ">>,
     <<"d", "e", "n", "s", "e", " ">>,
     <<"s", "o", "l", "i", "d", " ">>,
     <<"t", "h", "i", "c", "k", " ">>,
     <<"p", "r", "i", "s", "m", "a", "t", "i", "c", " ">>,
     <<"l", "u", "m", "i", "n", "o", "u", "s", " ">>,
     <<"g", "l", "e", "a", "m", "i", "n", "g", " ">>,
     <<"c", "o", "n", "d", "e", "n", "s", "e", "d", " ">>,
     <<"m", "a", "s", "s", "i", "v", "e", " ">>,
     <<"s", "m", "o", "o", "t", "h", " ">> >>

IcePrefixes ==
  << <<"e", "n", "r", "i", "c", "h", "e", "d", " ">>,
     <<"t", "h", "i", "c", "k", " ">>,
     <<"p", "r", "i", "s", "t", "i", "n", "e", " ">>,
     <<"s", "m", "o", "o", "t", "h", " ">>,
     <<"c", "r", "y", "s", "t", "a", "l", "l", "i", "n", "e", " ">> >>

\* Lines 397-407
Prefixes(it) ==
  IF it = "ore" THEN OrePrefixes
  ELSE IF it = "ice" THEN IcePrefixes
  ELSE IF it = "moon_ore" THEN OrePrefixes
  ELSE <<>>

ItemTypes == {"ore", "ice", "moon_ore", "mineral"}

OreNames ==
  { <<"V", "e", "l">>,
    <<"D", "e", "n", "s", "e", " ", "V", "e", "l">>,
    <<"d", "e", "n", "s", "e", " ", " ", "V", "e", "l">>,
    <<"T", "h", "i", "c", "k", " ", "V", "e", "l">>,
    <<"E", "n", "r", "i", "c", "h", "e", "d", " ", "V", "e", "l">>,
    <<"D", "e", "n", "s", "e", " ", "T", "h", "i", "c", "k", " ", "V", "e", "l">> }

\* The input lists: up to MaxOreItems entries, each with its own typeID,
\* volume and refined output.
\* The list of n entries with the names f.
OreList(n, f) ==
  [i \in 1..n |-> [typeID |-> i, name |-> f[i], volume |-> 10 * i,
                   group |-> {"Veldspar"},
                   refined_output |-> <<[typeID |-> 34, quantity |-> 100 * i]>>]]

\* NameLower with the name as written, not lower-cased.
NameAsWritten(name) == name

\* name_lower = name.lower() (line 414)
NameLower(name) == StrLower(name)

\* The loop of lines 419-423: the index of the first prefix, in list order,
\* that name_lower starts with, or 0 when the loop ends without a break.
RECURSIVE FirstMatch(_, _, _)
FirstMatch(name_lower, prefixes, j) ==
  IF j > Len(prefixes) THEN 0
  ELSE IF StartsWith(name_lower, prefixes[j]) THEN j
  ELSE FirstMatch(name_lower, prefixes, j + 1)

\* base_name after lines 415-428, j being the index of the matching prefix:
\* name[len(prefix):].strip(), or name when there is none
BaseName(name, prefixes, j) ==
  IF j = 0 THEN name
  ELSE Strip(SubSeq(name, Len(prefixes[j]) + 1, Len(name)))

\* Lines 413-439 for one item
AddItem(bv, item, prefixes) ==
  LET j == FirstMatch(NameLower(item.name), prefixes, 1)
      is_base == j = 0
      base_name == BaseName(item.name, prefixes, j)
      old == IF base_name \in DictKeys(bv) THEN DictGet(bv, base_name)
             ELSE [base |-> <<>>, variants |-> <<>>]
  IN DictPut(bv, base_name,
             IF is_base
             THEN [old EXCEPT !.base = <<item>>]
             ELSE [old EXCEPT !.variants = Append(@, item)])

\* First pass (lines 410-439)
RECURSIVE BaseVariants(_, _)
BaseVariants(its, prefixes) ==
  IF its = <<>> THEN <<>>
  ELSE AddItem(BaseVariants(SubSeq(its, 1, Len(its) - 1), prefixes), its[Len(its)], prefixes)

\* VariantNode with the base name stored as the variant's name.
VariantNodeNamedByBase(variant, base_name) ==
  [typeID |-> variant.typeID, name |-> base_name, volume |-> variant.volume,
   refined_output |-> variant.refined_output]

\* Lines 462-467
VariantNode(variant, base_name) ==
  [typeID |-> variant.typeID, name |-> variant.name, volume |-> variant.volume,
   refined_output |-> variant.refined_output]

\* for variant in sorted(variants, key=name): node[variant["name"]] = ...
RECURSIVE PutVariants(_, _)
PutVariants(vs, base_name) ==
  IF vs = <<>> THEN <<>>
  ELSE DictPut(PutVariants(SubSeq(vs, 1, Len(vs) - 1), base_name),
               vs[Len(vs)].name, VariantNode(vs[Len(vs)], base_name))

SortedVariants(vs) ==
  LET s == Sorted([i \in 1..Len(vs) |-> [k |-> vs[i].name, v |-> vs[i]]])
  IN [i \in 1..Len(s) |-> s[i].v]

\* Lines 451-467
SubtypeNode(base_name, data) ==
  LET base_item == data.base[1]
  IN [typeID |-> base_item.typeID, name |-> base_item.name, volume |-> base_item.volume,
      group |-> base_item.group, refined_output |-> base_item.refined_output,
      variants |-> PutVariants(SortedVariants(data.variants), base_name)]

\* Line 447: a group without a base item is skipped.
HasBaseItem(data) == data.base # <<>>

\* Second pass (lines 442-467)
RECURSIVE BuildSubtypes(_)
BuildSubtypes(bv) ==
  IF bv = <<>> THEN <<>>
  ELSE LET e == bv[Len(bv)]
           rest == BuildSubtypes(SubSeq(bv, 1, Len(bv) - 1))
       IN IF HasBaseItem(e.v) THEN DictPut(rest, e.k, SubtypeNode(e.k, e.v)) ELSE rest

\* The function as a whole; line 469 sorts the result by key.
group_ore_subtypes(its, it) == Sorted(BuildSubtypes(BaseVariants(its, Prefixes(it))))

\* The result as a flat list again: each base entry, then its nested
\* variant entries, which carry no "group".
RECURSIVE Flatten(_)
Flatten(st) ==
  IF st = <<>> THEN <<>>
  ELSE LET n == st[1].v
       IN <<[typeID |-> n.typeID, name |-> n.name, volume |-> n.volume, group |-> n.group,
             refined_output |-> n.refined_output]>>
          \o [i \in 1..Len(n.variants) |->
                [typeID |-> n.variants[i].v.typeID, name |-> n.variants[i].v.name,
                 volume |-> n.variants[i].v.volume, group |-> {},
                 refined_output |-> n.variants[i].v.refined_output]]
          \o Flatten(Tail(st))

OreIdle ==
  /\ items = <<>>
  /\ item_type = "idle"
  /\ base_variants = <<>>
  /\ subtypes = <<>>
  /\ regrouped = <<>>
  /\ opc = "idle"

OreInit ==
  /\ \E n \in 0..MaxOreItems : \E f \in [1..n -> OreNames] : items = OreList(n, f)
  /\ item_type \in ItemTypes
  /\ base_variants = <<>>
  /\ subtypes = <<>>
  /\ regrouped = <<>>
  /\ opc = "start"

\* First pass
IdentifyBases ==
  /\ opc = "start"
  /\ base_variants' = BaseVariants(items, Prefixes(item_type))
  /\ opc' = "identified"
  /\ UNCHANGED <<items, item_type, subtypes, regrouped, mvars, lvars, xvars>>

\* Second pass and the sorted return value
NestVariants ==
  /\ opc = "identified"
  /\ subtypes' = Sorted(BuildSubtypes(base_variants))
  /\ opc' = "grouped"
  /\ UNCHANGED <<items, item_type, base_variants, regrouped, mvars, lvars, xvars>>

\* group_ore_subtypes again, on the flattened result and the same item type
Regroup ==
  /\ opc = "grouped"
  /\ regrouped' = group_ore_subtypes(Flatten(subtypes), item_type)
  /\ opc' = "done"
  /\ UNCHANGED <<items, item_type, base_variants, subtypes, mvars, lvars, xvars>>

OreNext == IdentifyBases \/ NestVariants \/ Regroup

-----------------------------------------------------------------------------
(* extract_market, steps 4 and 5 call by call                              *)
(* The recursion of build_node is unfolded into its call stack.  A frame   *)
(* is [mgid, todo]: the group build_node was called with and the children  *)
(* its loop has still to visit, in the order of the sorted list.  The      *)
(* bottom frame is the loop of step 5 over the roots, with mgid None.      *)
(* parentGroupID ranges over None, the IDs of the table and an ID that no  *)
(* table has.  The groups carry no nameID, so each resolves to its         *)
(* Unknown_<id> name and the sorted order is that of these names.          *)

MaxWalkGroups == 3

\* No group is entered more often than this; the walk stops where the next
\* call would exceed it.
MaxCalls == 2

WalkGroupAttrs ==
  [nameID : {{}},
   parent : {None} \cup (1..(MaxWalkGroups + 1)),
   hasTypes : BOOLEAN]

\* The loop of step 5 over every group of the table.
AllGroupsAsRoots(gs, cm) ==
  SortedByName([i \in 1..Len(gs) |-> gs[i].id], gs)

\* sorted(children_map[None], key=...): the groups with a null parent.
Roots(gs, cm) == SortedByName(GetList(cm, None), gs)

\* The list the loop of build_node(mgid) runs over: nothing when has_types.
ChildrenTodo(mgid, gs, cm) ==
  IF Group(gs, mgid).hasTypes THEN <<>> ELSE SortedByName(GetList(cm, mgid), gs)

Top(stack) == stack[Len(stack)]

WalkIdle ==
  /\ call_stack = <<>>
  /\ calls = <<>>

WalkInit ==
  /\ types = <<>>
  /\ \E n \in 0..MaxWalkGroups : \E f \in [1..n -> WalkGroupAttrs] :
       market_groups = GroupTable(n, f)
  /\ types_by_mgid = <<>>
  /\ children_map = <<>>
  /\ market_tree = <<>>
  /\ mpc = "start"
  /\ call_stack = <<>>
  /\ calls = [g \in GroupIds(market_groups) |-> 0]

\* Step 5: the sorted list of roots is made.
EnterRootLoop ==
  /\ mpc = "children"
  /\ call_stack' = << [mgid |-> None, todo |-> Roots(market_groups, children_map)] >>
  /\ mpc' = "building"
  /\ UNCHANGED <<types, market_groups, types_by_mgid, children_map, market_tree, calls,
                 lvars, ovars, cvars, yvars>>

\* build_node(c) is entered for the next element c of the running loop.
CallBuildNode ==
  /\ mpc = "building"
  /\ Top(call_stack).todo # <<>>
  /\ LET c == Head(Top(call_stack).todo)
     IN /\ calls[c] < MaxCalls
        /\ calls' = [calls EXCEPT ![c] = @ + 1]
        /\ call_stack' =
             Append([call_stack EXCEPT ![Len(call_stack)].todo = Tail(@)],
                    [mgid |-> c, todo |-> ChildrenTodo(c, market_groups, children_map)])
  /\ UNCHANGED <<types, market_groups, types_by_mgid, children_map, market_tree, mpc,
                 lvars, ovars, cvars, yvars>>

\* The loop of a build_node is over and the call returns.
ReturnBuildNode ==
  /\ mpc = "building"
  /\ Len(call_stack) > 1
  /\ Top(call_stack).todo = <<>>
  /\ call_stack' = SubSeq(call_stack, 1, Len(call_stack) - 1)
  /\ UNCHANGED <<types, market_groups, types_by_mgid, children_map, market_tree, mpc,
                 calls, lvars, ovars, cvars, yvars>>

\* The loop over the roots is over: market_tree is complete and written.
WriteMarket ==
  /\ mpc = "building"
  /\ Len(call_stack) = 1
  /\ Top(call_stack).todo = <<>>
  /\ market_tree' = BuildMarketTree(market_groups, types_by_mgid, children_map)
  /\ call_stack' = <<>>
  /\ mpc' = "done"
  /\ UNCHANGED <<types, market_groups, types_by_mgid, children_map, calls,
                 lvars, ovars, cvars, yvars>>

WalkNext ==
  \/ CollectTypes
  \/ BuildChildrenMap
  \/ EnterRootLoop
  \/ CallBuildNode
  \/ ReturnBuildNode
  \/ WriteMarket

-----------------------------------------------------------------------------
(* extract_ores_ice_and_moon_ores: the categorisation of the item types    *)
(* A type is [typeID, name, groupID, published], groupID being None when   *)
(* the record has none.  groups.yaml is a function from group ID to        *)
(* [categoryID, name].  An entry of a category list is [typeID, name]; the *)
(* volume, group name and refined_output fields are copied through and are *)
(* left out.                                                               *)

ASTEROID_CATEGORY_ID == 25
ICE_CATEGORY_ID == 87
GAS_CATEGORY_ID == 49
MOON_ORE_GROUP_IDS == {1920, 1921, 1922, 1923}

COMPRESSED_KEYWORDS ==
  << <<"c", "o", "m", "p", "r", "e", "s", "s", "e", "d">>,
     <<"c", "o", "m", "p", "a", "c", "t">> >>

MaxOreTypes == 2

\* sub in s
Contains(s, sub) ==
  \E i \in 0..(Len(s) - Len(sub)) : SubSeq(s, i + 1, i + Len(sub)) = sub

is_compressed_ore(name) ==
  LET name_lower == StrLower(name)
  IN \E j \in 1..Len(COMPRESSED_KEYWORDS) : Contains(name_lower, COMPRESSED_KEYWORDS[j])

NameVel == <<"V", "e", "l">>
NameCompactVel == <<"C", "o", "m", "p", "a", "c", "t", " ", "V">>
NameCompressed == <<"x", " ", "c", "o", "m", "p", "r", "e", "s", "s", "e", "d">>
OreTypeNames == {NameVel, NameCompactVel, NameCompressed}

GroupNameIce == <<"B", "l", "u", "e", " ", "I", "c", "e">>
GroupNameRock == <<"R", "o", "c", "k">>

\* Two tables of groups.yaml.  In the first, moon ore group 1920 is of the
\* asteroid category, as the other ore group 462; 465 and 466 are of the ice
\* category, 466 without "ice" in its name; 711 is a gas group.  In the
\* second, 1920 is of the ice category and 462 is of no mined category.
GroupsYaml1 ==
  [g \in {1920, 462, 465, 466, 711} |->
     CASE g = 1920 -> [categoryID |-> ASTEROID_CATEGORY_ID, name |-> GroupNameRock]
       [] g = 462 -> [categoryID |-> ASTEROID_CATEGORY_ID, name |-> GroupNameRock]
       [] g = 465 -> [categoryID |-> ICE_CATEGORY_ID, name |-> GroupNameIce]
       [] g = 466 -> [categoryID |-> ICE_CATEGORY_ID, name |-> GroupNameRock]
       [] g = 711 -> [categoryID |-> GAS_CATEGORY_ID, name |-> GroupNameRock]]

GroupsYaml2 ==
  [g \in {1920, 462, 465, 711} |->
     CASE g = 1920 -> [categoryID |-> ICE_CATEGORY_ID, name |-> GroupNameIce]
       [] g = 462 -> [categoryID |-> 4, name |-> GroupNameRock]
       [] g = 465 -> [categoryID |-> ICE_CATEGORY_ID, name |-> GroupNameIce]
       [] g = 711 -> [categoryID |-> GAS_CATEGORY_ID, name |-> GroupNameIce]]

GroupsYamls == {GroupsYaml1, GroupsYaml2}

OreGroupIds == {None, 1920, 462, 465, 466, 711}

\* The attributes of a type.  An unpublished type is skipped whatever its
\* name and group are, so one unpublished record stands for all.
OreTypeAttrs ==
  [name : OreTypeNames, groupID : OreGroupIds, published : {TRUE}]
    \cup {[name |-> NameVel, groupID |-> 462, published |-> FALSE]}

\* The table of types.yaml with the attributes f of its types 1..n.
OreTypeTable(n, f) ==
  [i \in 1..n |-> [typeID |-> i, name |-> f[i].name, groupID |-> f[i].groupID,
                   published |-> f[i].published]]

\* The set of materialTypeIDs over all entries of typeMaterials.yaml.
RefinedTypeIdSets == SUBSET (1..MaxOreTypes)

OreGroups(groups) == {g \in DOMAIN groups : groups[g].categoryID = ASTEROID_CATEGORY_ID}

IceGroups(groups) ==
  {g \in DOMAIN groups :
     /\ groups[g].categoryID = ICE_CATEGORY_ID
     /\ Contains(StrLower(groups[g].name), <<"i", "c", "e">>)}

GasGroups(groups) == {g \in DOMAIN groups : groups[g].categoryID = GAS_CATEGORY_ID}

\* The chain with the ore test ahead of the moon ore test.
CategoryOreFirst(t, og, ig, gg, refined) ==
  IF t.groupID \in og /\ ~is_compressed_ore(t.name) THEN "ores"
  ELSE IF t.groupID \in MOON_ORE_GROUP_IDS /\ ~is_compressed_ore(t.name) THEN "moon_ores"
  ELSE IF t.groupID \in ig /\ ~is_compressed_ore(t.name) THEN "ice"
  ELSE IF t.typeID \in refined THEN "minerals"
  ELSE IF t.groupID \in gg THEN "gas_clouds"
  ELSE "none"

\* The if/elif chain: the list the entry is appended to, "none" when no
\* branch is taken.
Category(t, og, ig, gg, refined) ==
  IF t.groupID \in MOON_ORE_GROUP_IDS /\ ~is_compressed_ore(t.name) THEN "moon_ores"
  ELSE IF t.groupID \in og /\ ~is_compressed_ore(t.name) THEN "ores"
  ELSE IF t.groupID \in ig /\ ~is_compressed_ore(t.name) THEN "ice"
  ELSE IF t.typeID \in refined THEN "minerals"
  ELSE IF t.groupID \in gg THEN "gas_clouds"
  ELSE "none"

OreEntry(t) == [typeID |-> t.typeID, name |-> t.name]

\* list.append(entry) when the entry is of category c
AppendIf(list, c, cat, t) == IF c = cat THEN Append(list, OreEntry(t)) ELSE list

CatIdle ==
  /\ ore_types = <<>>
  /\ all_refined_type_ids = {}
  /\ ore_groups = {}
  /\ ice_groups = {}
  /\ gas_groups = {}
  /\ type_i = 0
  /\ ores = <<>>
  /\ ice_items = <<>>
  /\ moon_ores = <<>>
  /\ minerals = <<>>
  /\ gas_clouds = <<>>
  /\ cpc = "idle"

CatInit ==
  /\ \E n \in 0..MaxOreTypes : \E f \in [1..n -> OreTypeAttrs] :
       ore_types = OreTypeTable(n, f)
  /\ all_refined_type_ids \in RefinedTypeIdSets
  /\ ore_groups = {}
  /\ ice_groups = {}
  /\ gas_groups = {}
  /\ type_i = 0
  /\ ores = <<>>
  /\ ice_items = <<>>
  /\ moon_ores = <<>>
  /\ minerals = <<>>
  /\ gas_clouds = <<>>
  /\ cpc = "start"

\* groups.yaml is loaded and the three sets of group IDs are built.
IdentifyGroups ==
  /\ cpc = "start"
  /\ \E groups \in GroupsYamls :
       /\ ore_groups' = OreGroups(groups)
       /\ ice_groups' = IceGroups(groups)
       /\ gas_groups' = GasGroups(groups)
  /\ cpc' = "loop"
  /\ UNCHANGED <<ore_types, all_refined_type_ids, type_i, ores, ice_items, moon_ores,
                 minerals, gas_clouds, mvars, lvars, ovars, wvars, yvars>>

\* One iteration of the loop over types.items().
CategorizeType ==
  /\ cpc = "loop"
  /\ type_i < Len(ore_types)
  /\ type_i' = type_i + 1
  /\ LET t == ore_types[type_i + 1]
         c == IF t.published
              THEN Category(t, ore_groups, ice_groups, gas_groups, all_refined_type_ids)
              ELSE "unpublished"
     IN /\ moon_ores' = AppendIf(moon_ores, c, "moon_ores", t)
        /\ ores' = AppendIf(ores, c, "ores", t)
        /\ ice_items' = AppendIf(ice_items, c, "ice", t)
        /\ minerals' = AppendIf(minerals, c, "minerals", t)
        /\ gas_clouds' = AppendIf(gas_clouds, c, "gas_clouds", t)
  /\ UNCHANGED <<ore_types, all_refined_type_ids, ore_groups, ice_groups, gas_groups,
                 cpc, mvars, lvars, ovars, wvars, yvars>>

\* The loop is over and the lists are written out.
WriteOres ==
  /\ cpc = "loop"
  /\ type_i = Len(ore_types)
  /\ cpc' = "done"
  /\ UNCHANGED <<ore_types, all_refined_type_ids, ore_groups, ice_groups, gas_groups,
                 type_i, ores, ice_items, moon_ores, minerals, gas_clouds,
                 mvars, lvars, ovars, wvars, yvars>>

CatNext == IdentifyGroups \/ CategorizeType \/ WriteOres

-----------------------------------------------------------------------------
(* load_yaml_parallel                                                      *)
(* The calling thread creates the executor, submits one task per element   *)
(* of paths and leaves the with block, which joins the worker threads.     *)
(* A worker thread takes the oldest task of the queue, runs load_single    *)
(* and goes back for the next one.  The data a load returns is {} for the  *)
(* empty dict and {p} for the content of the file at path p.               *)

MaxPaths == 3

\* max_workers=min(8, len(paths))
MaxWorkers == 8

PathIds == {1, 2}

\* What load_yaml meets at a path: no file, a file that parses, or a file
\* on which open or yaml.safe_load raises.
FileStates == {"missing", "ok", "bad"}

PathLists == UNION {[1..n -> PathIds] : n \in 0..MaxPaths}

Min(a, b) == IF a < b THEN a ELSE b

load_yaml_raises(fs, path) == fs[path] = "bad"

\* the value load_yaml returns when it does not raise
load_yaml(fs, path) == IF fs[path] = "missing" THEN {} ELSE {path}

IdleWorker == [pc |-> "idle", path |-> 0, data |-> {}]

\* an acquire that never blocks
LockAlwaysFree(l) == TRUE

\* lock.acquire() goes through when no thread holds the lock
LockFree(l) == l = {}

\* results[path] = data
SetItem(res, path, data) ==
  {e \in res : e.path # path} \cup {[path |-> path, data |-> data]}

YamlIdle ==
  /\ paths = <<>>
  /\ files = <<>>
  /\ work_queue = <<>>
  /\ worker = <<>>
  /\ lock = {}
  /\ results = {}
  /\ ypc = "idle"

YamlInit ==
  /\ paths \in PathLists
  /\ files \in [PathIds -> FileStates]
  /\ work_queue = <<>>
  /\ worker = <<>>
  /\ lock = {}
  /\ results = {}
  /\ ypc = "start"

\* ThreadPoolExecutor(max_workers=...) raises ValueError for 0 workers;
\* otherwise executor.map submits load_single(path) for every path, and the
\* iterator it returns is dropped.
Submit ==
  /\ ypc = "start"
  /\ IF Len(paths) = 0
     THEN /\ ypc' = "raised"
          /\ UNCHANGED <<work_queue, worker>>
     ELSE /\ worker' = [w \in 1..Min(MaxWorkers, Len(paths)) |-> IdleWorker]
          /\ work_queue' = paths
          /\ ypc' = "joining"
  /\ UNCHANGED <<paths, files, lock, results, mvars, lvars, ovars, wvars, cvars>>

\* A worker thread takes the next task.
TakeTask(w) ==
  /\ ypc = "joining"
  /\ worker[w].pc = "idle"
  /\ work_queue # <<>>
  /\ worker' = [worker EXCEPT ![w] = [pc |-> "load", path |-> Head(work_queue),
                                      data |-> {}]]
  /\ work_queue' = Tail(work_queue)
  /\ UNCHANGED <<paths, files, lock, results, ypc, mvars, lvars, ovars, wvars, cvars>>

\* data = load_yaml(path).  An exception ends the task: it is kept in the
\* task's future, which nothing reads.
LoadSingle(w) ==
  /\ worker[w].pc = "load"
  /\ worker' = [worker EXCEPT ![w] =
                  IF load_yaml_raises(files, worker[w].path)
                  THEN IdleWorker
                  ELSE [pc |-> "acquire", path |-> worker[w].path,
                        data |-> load_yaml(files, worker[w].path)]]
  /\ UNCHANGED <<paths, files, work_queue, lock, results, ypc,
                 mvars, lvars, ovars, wvars, cvars>>

\* with lock: entering
Acquire(w) ==
  /\ worker[w].pc = "acquire"
  /\ LockFree(lock)
  /\ lock' = {w}
  /\ worker' = [worker EXCEPT ![w].pc = "write"]
  /\ UNCHANGED <<paths, files, work_queue, results, ypc,
                 mvars, lvars, ovars, wvars, cvars>>

\* results[path] = data, and leaving the with block releases the lock
WriteResult(w) ==
  /\ worker[w].pc = "write"
  /\ results' = SetItem(results, worker[w].path, worker[w].data)
  /\ lock' = {}
  /\ worker' = [worker EXCEPT ![w] = IdleWorker]
  /\ UNCHANGED <<paths, files, work_queue, ypc, mvars, lvars, ovars, wvars, cvars>>

\* Leaving the with block of the executor: shutdown(wait=True) returns when
\* every submitted task has run and the threads have ended; return results.
Return ==
  /\ ypc = "joining"
  /\ work_queue = <<>>
  /\ \A w \in DOMAIN worker : worker[w].pc = "idle"
  /\ ypc' = "returned"
  /\ UNCHANGED <<paths, files, work_queue, worker, lock, results,
                 mvars, lvars, ovars, wvars, cvars>>

YamlNext ==
  \/ Submit
  \/ \E w \in DOMAIN worker : TakeTask(w)
  \/ \E w \in DOMAIN worker : LoadSingle(w)
  \/ \E w \in DOMAIN worker : Acquire(w)
  \/ \E w \in DOMAIN worker : WriteResult(w)
  \/ Return

-----------------------------------------------------------------------------
(* The specifications: one program runs, the others stay idle.             *)

OthersIdle == CatIdle /\ YamlIdle

InitMarket == MarketInit /\ WalkIdle /\ LocIdle /\ OreIdle /\ OthersIdle

InitLoc == LocInit /\ MarketIdle /\ WalkIdle /\ OreIdle /\ OthersIdle

SpecLoc == InitLoc /\ [][LocNext]_vars

InitOre == OreInit /\ MarketIdle /\ WalkIdle /\ LocIdle /\ OthersIdle

SpecOre == InitOre /\ [][OreNext]_vars

SpecMarket == InitMarket /\ [][MarketNext]_vars

InitWalk == WalkInit /\ LocIdle /\ OreIdle /\ OthersIdle

SpecWalk == InitWalk /\ [][WalkNext]_vars

\* The interpreter keeps running extract_market: while a step of steps 2 to
\* 5 can be taken, one is taken.
SpecWalkLive ==
  SpecWalk /\ WF_vars(CollectTypes \/ BuildChildrenMap \/ EnterRootLoop
                        \/ CallBuildNode \/ ReturnBuildNode)

InitCat == CatInit /\ MarketIdle /\ WalkIdle /\ LocIdle /\ OreIdle /\ YamlIdle

SpecCat == InitCat /\ [][CatNext]_vars

InitYaml == YamlInit /\ MarketIdle /\ WalkIdle /\ LocIdle /\ OreIdle /\ CatIdle

SpecYaml == InitYaml /\ [][YamlNext]_vars

-----------------------------------------------------------------------------
(* Claims about extract_market                                             *)

MarketDone == mpc = "done"

\* Every node of a tree, parents before children.
RECURSIVE NodesOf(_)
NodesOf(d) ==
  IF d = <<>> THEN <<>>
  ELSE <<d[1].v>> \o NodesOf(d[1].v.children) \o NodesOf(Tail(d))

\* The places <<node, position>> of the tree whose item has the given typeID.
PlacesOf(tid) ==
  LET ns == NodesOf(market_tree)
  IN UNION {{<<n, j>> : j \in {j \in 1..Len(ns[n].items) : ns[n].items[j].typeID = tid}}
            : n \in 1..Len(ns)}

\* C1: every published item whose marketGroupID is the ID of an existing
\* group appears exactly once in the market tree, in the items list of the
\* node of its own marketGroupID.
C1_EveryPublishedItemOnce ==
  MarketDone =>
    \A i \in 1..Len(types) :
      (types[i].published /\ types[i].mgid \in GroupIds(market_groups)) =>
        LET places == PlacesOf(IntToStr(types[i].typeID))
            ns == NodesOf(market_tree)
        IN /\ Cardinality(places) = 1
           /\ \A pl \in places :
                ns[pl[1]].info.marketGroupID = IntToStr(types[i].mgid)

\* C2: no item whose published flag is false appears in any items list of
\* the market tree.
C2_NoUnpublishedItem ==
  MarketDone =>
    \A i \in 1..Len(types) :
      ~types[i].published => PlacesOf(IntToStr(types[i].typeID)) = {}

\* The group a node was built from.
GroupOfNode(n) ==
  CHOOSE g \in Range(market_groups) : IntToStr(g.id) = n.info.marketGroupID

\* C3: the content of a node does not depend on hasTypes: a group with
\* hasTypes=false and attached items emits them in its items list, and a
\* group with hasTypes=true and child groups emits its items list and every
\* child's sub-tree as keys of the same node.
C3_ContentIndependentOfHasTypes ==
  MarketDone =>
    \A n \in Range(NodesOf(market_tree)) :
      LET g == GroupOfNode(n)
          attached == GetList(types_by_mgid, g.id)
          kids == GetList(children_map, g.id)
      IN /\ (~g.hasTypes /\ attached # <<>>) =>
              /\ n.hasItems
              /\ {it.typeID : it \in Range(n.items)} = {it.typeID : it \in Range(attached)}
         /\ (g.hasTypes /\ kids # <<>>) =>
              /\ n.hasItems
              /\ \A c \in Range(kids) :
                   GroupName(Group(market_groups, c)) \in DictKeys(n.children)

\* a <= b on names compared case-insensitively.
CILessEq(a, b) == ~StrLess(StrLower(b), StrLower(a))

SeqPermutations(s) ==
  {[i \in 1..Len(s) |-> s[p[i]]] : p \in Permutations(1..Len(s))}

\* C4: every items list is ascending by case-insensitive item name, root
\* groups and child groups are in ascending order of their case-insensitive
\* names, and the output does not depend on the iteration order of the tables.
C4_CaseInsensitiveOrder ==
  MarketDone =>
    /\ \A n \in Range(NodesOf(market_tree)) :
         /\ \A j \in 1..(Len(n.items) - 1) :
              CILessEq(n.items[j].typeName, n.items[j + 1].typeName)
         /\ \A j \in 1..(Len(n.children) - 1) :
              CILessEq(n.children[j].k, n.children[j + 1].k)
    /\ \A j \in 1..(Len(market_tree) - 1) :
         CILessEq(market_tree[j].k, market_tree[j + 1].k)
    /\ \A ts \in SeqPermutations(types) :
         \A gs \in SeqPermutations(market_groups) :
           ExtractMarket(ts, gs) = market_tree

-----------------------------------------------------------------------------
(* Claims about extract_locations                                          *)

LocDone == lpc = "done"

PlexDirs == {i \in 1..Len(universe) : universe[i].decl = {PLEX_REGION_ID}}

\* C5: a region directory declaring the PLEX region ID is in the output
\* under its directory name, whatever the stations and whatever it holds.
C5_PlexRegionIncluded ==
  LocDone =>
    \A i \in PlexDirs :
      /\ universe[i].name \in DOMAIN locations
      /\ locations[universe[i].name].regionID = PLEX_REGION_ID

\* A PLEX region directory is in the output although no station has its
\* regionID and it has no constellation entry.
C5_Witness ==
  /\ LocDone
  /\ \A k \in DOMAIN stations : stations[k].regionID # PLEX_REGION_ID
  /\ \E i \in PlexDirs :
       /\ universe[i].name \in DOMAIN locations
       /\ DOMAIN locations[universe[i].name].consts = {}

\* C6: outside the PLEX region every region of the output has a
\* constellation, every constellation a system and every system a station.
C6_NonPlexHasStations ==
  LocDone =>
    \A rn \in DOMAIN locations :
      locations[rn].regionID # PLEX_REGION_ID =>
        /\ DOMAIN locations[rn].consts # {}
        /\ \A cn \in DOMAIN locations[rn].consts :
             LET co == locations[rn].consts[cn]
             IN /\ DOMAIN co.systems # {}
                /\ \A sn \in DOMAIN co.systems : DOMAIN co.systems[sn].stations # {}

\* A region outside PLEX is in the output without one of its declared
\* system directories, and another processed region directory was pruned.
C6_Witness ==
  /\ LocDone
  /\ \E i \in 1..Len(universe) :
       /\ universe[i].name \in DOMAIN locations
       /\ locations[universe[i].name].regionID # PLEX_REGION_ID
       /\ \E cd \in Range(universe[i].consts) :
            /\ cd.name \in DOMAIN locations[universe[i].name].consts
            /\ \E sd \in Range(cd.systems) :
                 /\ sd.decl # {}
                 /\ sd.name \notin DOMAIN locations[universe[i].name].consts[cd.name].systems
  /\ \E j \in 1..Len(universe) :
       /\ RegionProcessed(region_structure, universe[j])
       /\ universe[j].name \notin DOMAIN locations

Attached ==
  UNION {UNION {UNION {{[region |-> rn, const |-> cn, system |-> sn,
                         station |-> locations[rn].consts[cn].systems[sn].stations[k]]
                        : k \in DOMAIN locations[rn].consts[cn].systems[sn].stations}
                       : sn \in DOMAIN locations[rn].consts[cn].systems}
                : cn \in DOMAIN locations[rn].consts}
         : rn \in DOMAIN locations}

DeclaredRegionIds == UNION {universe[i].decl : i \in 1..Len(universe)}

\* The station lacks one of the three IDs, or no region directory declares
\* its regionID.
Orphan(s) == ~AllIds(s) \/ s.regionID \notin DeclaredRegionIds

RegionDir(rn) == CHOOSE rd \in Range(universe) : rd.name = rn
ConstDir(rn, cn) == CHOOSE cd \in Range(RegionDir(rn).consts) : cd.name = cn
SystemDir(rn, cn, sn) == CHOOSE sd \in Range(ConstDir(rn, cn).systems) : sd.name = sn

\* C8: the run never fails on a lookup; a station lacking one of its three
\* IDs, or whose regionID no region directory declares, is nowhere in the
\* output; a station of the output sits in a system, a constellation and a
\* region whose directories declare its three IDs.
C8_OrphansDroppedStationsAttachedByIds ==
  /\ ~failed
  /\ lpc # "crashed"
  /\ LocDone =>
       /\ \A i \in 1..Len(raw_stations) :
            Orphan(raw_stations[i]) =>
              \A a \in Attached : a.station # raw_stations[i]
       /\ \A a \in Attached :
            /\ RegionDir(a.region).decl = {a.station.regionID}
            /\ ConstDir(a.region, a.const).decl = {a.station.constellationID}
            /\ SystemDir(a.region, a.const, a.system).decl = {a.station.solarSystemID}

\* A station is attached while an orphan station of the input is not.
C8_Witness ==
  /\ LocDone
  /\ Attached # {}
  /\ \E i \in 1..Len(raw_stations) : Orphan(raw_stations[i])

-----------------------------------------------------------------------------
(* Claims about group_ore_subtypes                                         *)

OreGrouped == opc \in {"grouped", "done"}

\* The lower-cased name starts with some prefix of the item type.
MatchesPrefix(name) ==
  LET low == StrLower(name)
  IN \E j \in 1..Len(Prefixes(item_type)) : StartsWith(low, Prefixes(item_type)[j])

\* The name without the first prefix, in list order, that it starts with,
\* and without the surrounding whitespace.
StrippedName(name) ==
  LET P == Prefixes(item_type)
      low == StrLower(name)
      j == CHOOSE j \in 1..Len(P) :
             /\ StartsWith(low, P[j])
             /\ \A h \in 1..(j - 1) : ~StartsWith(low, P[h])
  IN Strip(SubSeq(name, Len(P[j]) + 1, Len(name)))

\* For every entry of the input: whether it is a variant, and of which base.
Classified ==
  [i \in 1..Len(items) |->
     IF MatchesPrefix(items[i].name)
     THEN [variant |-> TRUE, base |-> StrippedName(items[i].name)]
     ELSE [variant |-> FALSE, base |-> items[i].name]]

\* The last entry of the set with the given name.
LastNamed(S, n) ==
  CHOOSE i \in S : items[i].name = n /\ \A j \in S : items[j].name = n => j <= i

Ascending(d) == \A j \in 1..(Len(d) - 1) : StrLess(d[j].k, d[j + 1].k)

\* C9: the keys of the result are the names of the entries that match no
\* prefix, in sorted order; a node carries the fields of the base entry; its
\* nested keys are the full names of the variants whose stripped name is
\* the base name, in sorted order, each with the variant's fields; a base
\* name with variants and no base entry is no key.
C9_GroupedByStrippedBaseName ==
  OreGrouped =>
    LET cls == Classified
        BaseEntries == {i \in 1..Len(items) : ~cls[i].variant}
    IN /\ DictKeys(subtypes) = {items[i].name : i \in BaseEntries}
       /\ Ascending(subtypes)
       /\ \A e \in Range(subtypes) :
            LET b == items[LastNamed(BaseEntries, e.k)]
                VariantsOf == {i \in 1..Len(items) : cls[i].variant /\ cls[i].base = e.k}
            IN /\ e.v.typeID = b.typeID
               /\ e.v.name = b.name
               /\ e.v.volume = b.volume
               /\ e.v.group = b.group
               /\ e.v.refined_output = b.refined_output
               /\ DictKeys(e.v.variants) = {items[i].name : i \in VariantsOf}
               /\ Ascending(e.v.variants)
               /\ \A ve \in Range(e.v.variants) :
                    LET v == items[LastNamed(VariantsOf, ve.k)]
                    IN /\ ve.v.typeID = v.typeID
                       /\ ve.v.name = v.name
                       /\ ve.v.volume = v.volume
                       /\ ve.v.refined_output = v.refined_output

\* A base with two variants is in the result, and a variant without a base
\* entry is not.
C9_Witness ==
  /\ OreGrouped
  /\ \E e \in Range(subtypes) : Len(e.v.variants) = 2
  /\ \E i \in 1..Len(items) :
       Classified[i].variant /\ Classified[i].base \notin DictKeys(subtypes)

\* C10: group_ore_subtypes on the flattened result, with the same item
\* type, returns the same grouping (and finds "group" on every base entry).
C10_RegroupingIdempotent ==
  opc = "done" =>
    /\ regrouped = subtypes
    /\ \A e \in Range(regrouped) : e.v.group # {}

\* The regrouped result has a base with a variant; the first run dropped a
\* variant without a base entry.
C10_Witness ==
  /\ opc = "done"
  /\ \E e \in Range(regrouped) : Len(e.v.variants) >= 1
  /\ Len(Flatten(subtypes)) < Len(items)

-----------------------------------------------------------------------------
(* Claims about extract_ores_ice_and_moon_ores                             *)

CatDone == cpc = "done"

PublishedTypes == {t \in Range(ore_types) : t.published}

FiveLists == <<moon_ores, ores, ice_items, minerals, gas_clouds>>

TypeIdsOf(list) == {list[i].typeID : i \in 1..Len(list)}

\* No typeID is in two lists or twice in one.
PairwiseDisjoint ==
  /\ \A i, j \in 1..5 : i < j => TypeIdsOf(FiveLists[i]) \cap TypeIdsOf(FiveLists[j]) = {}
  /\ \A i \in 1..5 : Cardinality(TypeIdsOf(FiveLists[i])) = Len(FiveLists[i])

CategorizedIds == UNION {TypeIdsOf(FiveLists[i]) : i \in 1..5}

\* Membership of a type in the five categories, in the priority order.
Membership(t) ==
  << t.groupID \in MOON_ORE_GROUP_IDS,
     t.groupID \in ore_groups,
     t.groupID \in ice_groups,
     t.typeID \in all_refined_type_ids,
     t.groupID \in gas_groups >>

\* What a type needs to be placed in each list: for the first three, a
\* name that is not compressed as well.
Eligibility(t) ==
  [i \in 1..5 |-> Membership(t)[i] /\ (i <= 3 => ~is_compressed_ore(t.name))]

\* The first of the five that holds, 0 when none does.
FirstOf(m) == IF \E i \in 1..5 : m[i] THEN CHOOSE i \in 1..5 : m[i] /\ \A j \in 1..(i - 1) : ~m[j]
              ELSE 0

\* The types with a compressed or compact name.
CompressedNamed == {t \in PublishedTypes : is_compressed_ore(t.name)}

\* The types that are of none of the five categories.
InNoCategory == {t \in PublishedTypes : FirstOf(Membership(t)) = 0}

\* C11 as stated: the five lists are pairwise disjoint, every listed type
\* is in the list of the first category it belongs to in the order moon
\* ore, ore, ice, mineral, gas, and the lists together hold the published
\* types less those with a compressed or compact name and those of none of
\* the five categories.
C11_UnionLessCompressedNamed ==
  CatDone =>
    /\ PairwiseDisjoint
    /\ CategorizedIds = {t.typeID : t \in PublishedTypes \ (CompressedNamed \cup InNoCategory)}
    /\ \A t \in PublishedTypes \ (CompressedNamed \cup InNoCategory) :
         t.typeID \in TypeIdsOf(FiveLists[FirstOf(Membership(t))])

\* C11, amended: a compressed or compact name keeps a type out of the moon
\* ore, ore and ice lists only.  The five lists are pairwise disjoint;
\* every published type is in the list of the first category, in the order
\* moon ore, ore, ice, mineral, gas, that it is eligible for, with its own
\* name, and in no list when it is eligible for none; nothing else is in
\* the lists.
C11_PlacedByPriorityOfEligibility ==
  CatDone =>
    /\ PairwiseDisjoint
    /\ CategorizedIds = {t.typeID : t \in {u \in PublishedTypes : FirstOf(Eligibility(u)) # 0}}
    /\ \A t \in PublishedTypes :
         FirstOf(Eligibility(t)) # 0 =>
           [typeID |-> t.typeID, name |-> t.name]
             \in Range(FiveLists[FirstOf(Eligibility(t))])

\* A moon ore whose group is an asteroid group as well is in the moon ore
\* list, and a type with a compressed name is in the mineral or gas list.
C11_Witness ==
  /\ CatDone
  /\ \E t \in PublishedTypes :
       /\ t.groupID \in ore_groups
       /\ t.typeID \in TypeIdsOf(moon_ores)
  /\ \E t \in CompressedNamed :
       t.typeID \in TypeIdsOf(minerals) \cup TypeIdsOf(gas_clouds)

-----------------------------------------------------------------------------
(* Claims about load_yaml_parallel                                         *)

\* The worker threads inside the with lock block.
Writers == {w \in DOMAIN worker : worker[w].pc = "write"}

AllLoadsCompleted ==
  /\ work_queue = <<>>
  /\ \A w \in DOMAIN worker : worker[w].pc = "idle"

PathsGiven == Range(paths)

KeysOf(res) == {e.path : e \in res}

-----------------------------------------------------------------------------
(* Claims about the recursion of build_node                                *)

\* The loop of step 5 has run through all roots and every call of
\* build_node has returned.
WalkDone ==
  \/ mpc = "done"
  \/ /\ mpc = "building"
     /\ Len(call_stack) = 1
     /\ Top(call_stack).todo = <<>>

\* parentGroupID of group g
ParentOf(g) == Group(market_groups, g).parent

RECURSIVE Ancestor(_, _)
\* The k-th ancestor of g along parentGroupID, None where the chain has
\* left the table.
Ancestor(g, k) ==
  IF k = 0 THEN g
  ELSE LET a == Ancestor(g, k - 1)
       IN IF a \in GroupIds(market_groups) THEN ParentOf(a) ELSE None

\* g is on a cycle of parentGroupID links (its own parent included).
OnCycle(g) == \E k \in 1..Len(market_groups) : Ancestor(g, k) = g

\* The places (parent, position) where g is listed in children_map.
ListedAt(g) ==
  {pl \in UNION {{<<p, i>> : i \in 1..Len(children_map[p])} : p \in DOMAIN children_map} :
     children_map[pl[1]][pl[2]] = g}

OncePerGroup ==
  /\ \A g \in DOMAIN calls : calls[g] <= 1
  /\ Len(call_stack) <= Len(market_groups) + 1
  /\ mpc \in {"children", "building", "done"} =>
       \A g \in GroupIds(market_groups) : Cardinality(ListedAt(g)) = 1
  /\ \A g \in GroupIds(market_groups) : OnCycle(g) => calls[g] = 0

\* C13: for every market-group table, with parentGroupID links that may
\* form a cycle, point to the group itself or to an absent group, the
\* assembly started from the groups with a null parent comes to its end,
\* and at every moment build_node has been entered at most once per group,
\* every group is listed under exactly one parent in children_map, and no
\* group on a cycle has been entered.
C13_TerminatesOncePerGroup == []OncePerGroup /\ <>WalkDone

\* The assembly has ended on a table with a group on a cycle, after a
\* call of build_node made from within a call of build_node.
C13_Witness ==
  /\ mpc = "done"
  /\ \E g \in GroupIds(market_groups) : OnCycle(g)
  /\ \E g \in GroupIds(market_groups) :
       calls[g] = 1 /\ ParentOf(g) \in GroupIds(market_groups)

====
